---- MODULE Spec2Model ----
(***************************************************************************)
(* The worker transport of kysely-sqlite-tools:                            *)
(*   - WaSqliteWorkerDriver, ConnectionMutex and WaSqliteWorkerConnection  *)
(*     (src/playground/src/modules/utils.ts), the main-thread side;        *)
(*   - onmessage and run (src/packages/dialect-bun-worker/src/worker.ts),  *)
(*     the worker side.                                                    *)
(* The main thread is a JavaScript event loop: a synchronous block runs to *)
(* completion, the continuations of resolved promises run as microtasks in *)
(* the order they were queued, and a message event is a task of its own    *)
(* that starts only when the microtask queue is empty.  The worker is a    *)
(* second thread that handles one message at a time.                       *)
(***************************************************************************)
EXTENDS Naturals, Sequences, FiniteSets

(* ---------------------------------------------------------------- bounds *)

\* callers of the driver (logical operations competing for the connection)
NClients == 3

\* executeQuery calls that reach postMessage in one behaviour
MaxCalls == 2

Clients == 1..NClients

VARIABLES
  peer,        \* who talks to the worker: the driver, or a main thread posting messages directly
  worker,      \* driver.worker: "none" (undefined), "live", "terminated"
  mitt,        \* driver.mitt is defined
  all,         \* the emitter's handler map: event type -> handlers in registration order
  connection,  \* driver.connection is defined
  connMitt,    \* connection.mitt is defined (the emitter the constructor was given)
  onCreate,    \* config.onCreateConnection has been invoked
  initSt,      \* the promise returned by init()
  destroySt,   \* the promise returned by destroy()
  m2w,         \* messages posted to the worker, not yet handled
  w2m,         \* messages posted by the worker, not yet delivered
  db,          \* the worker's `db`: "undef", "open", "closed"
  promise,     \* ConnectionMutex.promise is defined (resolve with it)
  waiters,     \* callers suspended in `await this.promise`, in registration order
  micro,       \* the microtask queue of the main thread
  draining,    \* the microtask queue is being run (no synchronous block is open)
  pc,          \* per caller: "idle", "waiting", "locked", "holding", "query"
  conn,        \* per caller: what acquireConnection returned: "none" (undefined) or "conn"
  cur,         \* per caller: the call in progress [op, id, wk, ds]: wk and ds are worker and destroySt at the call
  res,         \* per caller: how its last call settled [op, id, rid, out, err, wk, ds]: rid is the
               \* request the settling response answers, err the response's err
  nextId,      \* number of the next call (ghost: the wire format carries no id)
  arrivals,    \* ghost: callers with an acquireConnection issued and not yet released, in call order
  sent,        \* ghost: requests posted per type
  got,         \* ghost: the 'init' and 'close' response the driver has dispatched: "none", "ok", "err"
  tables,      \* the schema given to the sync: its tables in the order the author wrote them
  dropTableBeforeInit, \* the option of that name
  catalog,     \* the database: its tables (columns, keys, rows), indexes and triggers by name
  sync,        \* the sync in progress [st, run, tableMap, t, j, from]: statement j of table t
               \* is awaited; from is (ghost) the catalog at the call
  outcome,     \* what the last syncSchema returned: [ready, error, fn]
  issued,      \* ghost: the statements the current run has executed [k, stmt, ok, fault]
  runs,        \* ghost: the runs completed [outcome, from, catalog, issued]
  faults       \* ghost: statements failed by the database or the transport so far

transportVars == <<peer, worker, mitt, all, connection, connMitt, onCreate, initSt, destroySt,
                   m2w, w2m, db, promise, waiters, micro, draining, pc, conn, cur, res,
                   nextId, arrivals, sent, got>>

syncVars == <<tables, dropTableBeforeInit, catalog, sync, outcome, issued, runs, faults>>

vars == <<transportVars, syncVars>>

driverVars == <<worker, mitt, all, connection, connMitt, onCreate, initSt, destroySt>>
mutexVars == <<promise, waiters, micro, draining, arrivals>>
clientVars == <<pc, conn, cur, res>>

Types == {"init", "run", "close"}
Modes == {"query", "raw", "exec"}
Handshakes == {"init", "close"}

(* ------------------------------------------------------------ the worker *)

\* worker.ts run(): rows are read with stmt.all unless the mode is 'exec'
RunRows(mode) == IF mode # "exec" THEN "all" ELSE "none"

\* worker.ts run(): the QueryResult returned for a mode
NullData == [null |-> TRUE, rows |-> "none", meta |-> FALSE]

RunResult(mode) ==
  IF mode = "query"
  THEN [null |-> FALSE, rows |-> RunRows(mode), meta |-> FALSE]
  ELSE [null |-> FALSE, rows |-> RunRows(mode), meta |-> TRUE]

\* worker.ts run(): how many times the statement is stepped (stmt.all, then stmt.run)
RunExecs(mode) ==
  (IF mode # "exec" THEN 1 ELSE 0) + (IF mode = "query" THEN 0 ELSE 1)

\* a worker whose `db` is never undefined
ThrowsOnFail(d, msg, fail) == fail

\* does the operation of the message throw?  `db` undefined makes db.close() and
\* db[...] throw a TypeError; a closed database refuses statements; otherwise the
\* engine decides (fail).
Throws(d, msg, fail) ==
  CASE msg.type = "run"   -> d # "open" \/ fail
    [] msg.type = "close" -> d = "undef" \/ fail
    [] OTHER              -> fail

\* the database after the message
DbAfter(d, msg, fail) ==
  IF Throws(d, msg, fail) THEN d
  ELSE CASE msg.type = "init"  -> "open"
         [] msg.type = "close" -> "closed"
         [] OTHER              -> d

\* a worker that posts inside the try block: nothing is posted when it throws
ResponsesInTry(d, msg, fail) ==
  IF Throws(d, msg, fail) THEN <<>>
  ELSE << [type |-> msg.type, err |-> FALSE,
           data |-> IF msg.type = "run" THEN RunResult(msg.mode) ELSE NullData,
           id |-> msg.id, mode |-> msg.mode, dbAt |-> d,
           execs |-> IF msg.type = "run" THEN RunExecs(msg.mode) ELSE 0] >>

\* worker.ts onmessage: the messages posted for one received message
Responses(d, msg, fail) ==
  << [type  |-> msg.type,
      err   |-> Throws(d, msg, fail),
      data  |-> IF msg.type = "run" /\ ~Throws(d, msg, fail)
                THEN RunResult(msg.mode) ELSE NullData,
      id    |-> msg.id,
      mode  |-> msg.mode,
      dbAt  |-> d,
      execs |-> IF msg.type = "run" /\ ~Throws(d, msg, fail)
                THEN RunExecs(msg.mode) ELSE 0] >>

\* the worker handles the oldest message posted to it
onmessage ==
  /\ worker # "terminated"
  /\ m2w # <<>>
  /\ \E fail \in BOOLEAN :
       /\ db' = DbAfter(db, Head(m2w), fail)
       /\ w2m' = w2m \o Responses(db, Head(m2w), fail)
  /\ m2w' = Tail(m2w)
  /\ UNCHANGED <<syncVars, peer, driverVars, mutexVars, clientVars, nextId, sent, got>>

(* ------------------------------------------------------- the event emitter *)

EmptyAll == [t \in Types |-> <<>>]

\* mitt.once(type, handler): the handler is added after those already registered
Once(a, type, h) == [a EXCEPT ![type] = Append(@, h)]

\* mitt.emit(type, msg): every handler registered for the type is called, in
\* registration order, and a one-shot handler is removed as it is called
Emitted(a, type) == a[type]

AfterEmit(a, type) == [a EXCEPT ![type] = <<>>]

(* -------------------------------------------------------------- helpers *)

\* a request; `id` and `kind` are ghosts: the wire format carries neither
Msg(type, mode, sql, id, kind) ==
  [type |-> type, mode |-> mode, sql |-> sql, id |-> id, kind |-> kind]

\* Worker.postMessage: a terminated worker takes no message
PostTo(w, q, msg) == IF w = "terminated" THEN q ELSE Append(q, msg)

\* a synchronous block of caller code may run: the microtask queue is not being run
CanCall == ~draining

NoCall == [op |-> "none", id |-> 0, wk |-> "none", ds |-> "idle"]
NoRes == [op |-> "none", id |-> 0, rid |-> 0, out |-> "none", err |-> FALSE, wk |-> "none", ds |-> "idle"]

Remove(s, x) == SelectSeq(s, LAMBDA y : y # x)

SeqToSet(s) == {s[i] : i \in 1..Len(s)}

Holders == {c \in Clients : pc[c] \in {"locked", "holding", "query"}}

(* ------------------------------------------------------------ the driver *)

\* init(), up to `await new Promise(...)`: the worker and the emitter are set, the
\* 'init' request is posted and the one-shot 'init' handler registered
init ==
  /\ peer = "driver"
  /\ initSt = "idle"
  /\ CanCall
  /\ worker' = "live"
  /\ mitt' = TRUE
  /\ all' = Once(EmptyAll, "init", 0)
  /\ m2w' = PostTo("live", m2w, Msg("init", "-", "-", 0, "-"))
  /\ sent' = [sent EXCEPT !["init"] = @ + 1]
  /\ initSt' = "pending"
  /\ UNCHANGED <<syncVars, peer, connection, connMitt, onCreate, destroySt, w2m, db,
                 mutexVars, clientVars, nextId, got>>

\* destroy(): nothing to do without a worker; otherwise the 'close' request is
\* posted and the one-shot 'close' handler registered (this.mitt?.once)
destroy ==
  /\ peer = "driver"
  /\ destroySt = "idle"
  /\ CanCall
  /\ IF worker = "none"
     THEN /\ destroySt' = "resolved"
          /\ UNCHANGED <<m2w, sent, all>>
     ELSE /\ m2w' = PostTo(worker, m2w, Msg("close", "-", "-", 0, "-"))
          /\ sent' = [sent EXCEPT !["close"] = @ + 1]
          /\ all' = IF mitt THEN Once(all, "close", 0) ELSE all
          /\ destroySt' = "pending"
  /\ UNCHANGED <<syncVars, peer, worker, mitt, connection, connMitt, onCreate, initSt, w2m, db,
                 mutexVars, clientVars, nextId, got>>

\* an 'init' handler that ignores err
InitSettleAlways(err) == "resolved"

\* a 'close' handler that ignores err
CloseSettleAlways(err) == "resolved"

\* a 'run' handler that ignores err
RunSettleAlways(err, data) == "resolved"

\* the 'init' handler: err ? reject(err) : resolve()
InitSettle(err) == IF err THEN "rejected" ELSE "resolved"

\* the 'close' handler: err ? reject(err) : (terminate, clear, resolve)
CloseSettle(err) == IF err THEN "rejected" ELSE "resolved"

\* the 'run' handler: (!err && data) ? resolve(data) : reject(err)
RunSettle(err, data) == IF ~err /\ ~data.null THEN "resolved" ELSE "rejected"

\* the calls whose 'run' handler a dispatched message reaches
Reached(hs) == {c \in Clients : pc[c] = "query" /\ cur[c].id \in SeqToSet(hs)}

\* worker.onmessage of the driver: this.mitt?.emit(type, msg), with the handlers
\* it calls and, for 'init', the rest of init() that the resolved promise resumes
emit ==
  /\ peer = "driver"
  /\ w2m # <<>>
  /\ micro = <<>>
  /\ w2m' = Tail(w2m)
  /\ LET m == Head(w2m)
         hs == IF mitt THEN Emitted(all, m.type) ELSE <<>>
     IN  /\ got' = IF mitt /\ m.type \in Handshakes
                   THEN [got EXCEPT ![m.type] = IF m.err THEN "err" ELSE "ok"]
                   ELSE got
         /\ CASE m.type = "init" /\ hs # <<>> ->
                   /\ initSt' = InitSettle(m.err)
                   /\ connection' = (connection \/ InitSettle(m.err) = "resolved")
                   /\ connMitt' = IF InitSettle(m.err) = "resolved" THEN mitt ELSE connMitt
                   /\ onCreate' = (onCreate \/ InitSettle(m.err) = "resolved")
                   /\ all' = AfterEmit(all, "init")
                   /\ UNCHANGED <<worker, mitt, destroySt, clientVars>>
              [] m.type = "close" /\ hs # <<>> ->
                   /\ destroySt' = CloseSettle(m.err)
                   /\ IF CloseSettle(m.err) = "resolved"
                      THEN /\ worker' = "terminated"
                           /\ all' = EmptyAll
                           /\ mitt' = FALSE
                      ELSE /\ all' = AfterEmit(all, "close")
                           /\ UNCHANGED <<worker, mitt>>
                   /\ UNCHANGED <<connection, connMitt, onCreate, initSt, clientVars>>
              [] m.type = "run" /\ hs # <<>> ->
                   /\ all' = AfterEmit(all, "run")
                   /\ pc' = [c \in Clients |->
                               IF c \in Reached(hs) THEN "holding" ELSE pc[c]]
                   /\ res' = [c \in Clients |->
                               IF c \in Reached(hs)
                               THEN [op |-> cur[c].op, id |-> cur[c].id, rid |-> m.id,
                                     out |-> RunSettle(m.err, m.data),
                                     err |-> m.err, wk |-> cur[c].wk, ds |-> cur[c].ds]
                               ELSE res[c]]
                   /\ cur' = [c \in Clients |->
                               IF c \in Reached(hs) THEN NoCall ELSE cur[c]]
                   /\ UNCHANGED <<worker, mitt, connection, connMitt, onCreate,
                                  initSt, destroySt, conn>>
              [] OTHER ->
                   UNCHANGED <<driverVars, clientVars>>
  /\ UNCHANGED <<syncVars, peer, m2w, db, mutexVars, nextId, sent>>

(* ------------------------------------------------------------- the mutex *)

\* a lock that never waits
LockFreeAlways(p) == TRUE

\* a woken caller that does not test again (`if` for `while`)
StillFreeAlways(p) == TRUE

\* a query mode without 'raw'
ModeNoRaw(kind) == IF kind = "SelectQueryNode" THEN "query" ELSE "exec"

\* ConnectionMutex.lock: the condition that leaves `while (this.promise)`, as
\* tested on entry
LockFree(p) == ~p

\* ConnectionMutex.lock: the same condition, tested again after `await this.promise`
StillFree(p) == ~p

\* ConnectionMutex.unlock: resolve() queues the continuation of every caller
\* awaiting the promise, in the order they started to await it
Woken(ws) == [i \in 1..Len(ws) |-> [k |-> "resume", c |-> ws[i]]]

\* acquireConnection(), its synchronous part: lock() runs up to its first await,
\* or, with the mutex free, takes it and completes
acquireConnection(c) ==
  /\ peer = "driver"
  /\ pc[c] = "idle"
  /\ CanCall
  /\ arrivals' = Append(arrivals, c)
  /\ IF LockFree(promise)
     THEN /\ promise' = TRUE
          /\ micro' = Append(micro, [k |-> "return", c |-> c])
          /\ pc' = [pc EXCEPT ![c] = "locked"]
          /\ UNCHANGED waiters
     ELSE /\ waiters' = Append(waiters, c)
          /\ pc' = [pc EXCEPT ![c] = "waiting"]
          /\ UNCHANGED <<promise, micro>>
  /\ UNCHANGED <<syncVars, peer, driverVars, m2w, w2m, db, draining, conn, cur, res,
                 nextId, sent, got>>

\* the oldest microtask: a woken caller tests `while (this.promise)` again, or
\* acquireConnection resumes after lock() and returns this.connection
microtask ==
  /\ micro # <<>>
  /\ LET t == Head(micro) IN
       IF t.k = "resume"
       THEN IF StillFree(promise)
            THEN /\ promise' = TRUE
                 /\ micro' = Append(Tail(micro), [k |-> "return", c |-> t.c])
                 /\ pc' = [pc EXCEPT ![t.c] = "locked"]
                 /\ UNCHANGED <<waiters, conn>>
            ELSE /\ waiters' = Append(waiters, t.c)
                 /\ micro' = Tail(micro)
                 /\ UNCHANGED <<promise, pc, conn>>
       ELSE /\ conn' = [conn EXCEPT ![t.c] = IF connection THEN "conn" ELSE "none"]
            /\ pc' = [pc EXCEPT ![t.c] = "holding"]
            /\ micro' = Tail(micro)
            /\ UNCHANGED <<promise, waiters>>
  /\ draining' = (micro' # <<>>)
  /\ UNCHANGED <<syncVars, peer, driverVars, m2w, w2m, db, cur, res, nextId, arrivals, sent, got>>

\* releaseConnection(), by the caller that holds the connection: unlock()
releaseConnection(c) ==
  /\ peer = "driver"
  /\ pc[c] = "holding"
  /\ CanCall
  /\ promise' = FALSE
  /\ micro' = micro \o Woken(waiters)
  /\ waiters' = <<>>
  /\ arrivals' = Remove(arrivals, c)
  /\ pc' = [pc EXCEPT ![c] = "idle"]
  /\ conn' = [conn EXCEPT ![c] = "none"]
  /\ res' = [res EXCEPT ![c] = NoRes]
  /\ UNCHANGED <<syncVars, peer, driverVars, m2w, w2m, db, draining, cur, nextId, sent, got>>

(* -------------------------------------------------------- the connection *)

\* the node kinds of the compiled queries submitted
Kinds == {"SelectQueryNode", "RawNode", "InsertQueryNode"}

\* executeQuery: the mode sent with the request
Mode(kind) ==
  IF kind = "SelectQueryNode" THEN "query"
  ELSE IF kind = "RawNode" THEN "raw" ELSE "exec"

\* kysely's CompiledQuery.raw(sql): a RawNode with the given text
CompiledQueryRaw(sql) == [kind |-> "RawNode", sql |-> sql]

\* the promise executor of executeQuery: without an emitter the call is rejected
\* at once, otherwise it waits for the 'run' event
Registers(cm) == cm

\* connection.executeQuery(q) by a caller that holds the connection.  A caller
\* that was handed `undefined` (acquired before init completed) gets a TypeError
\* and nothing is sent.
Execute(c, op, q) ==
  /\ peer = "driver"
  /\ pc[c] = "holding"
  /\ CanCall
  /\ IF conn[c] = "none"
     THEN /\ res' = [res EXCEPT ![c] = [op |-> op, id |-> 0, rid |-> 0, out |-> "typeerror",
                                         err |-> FALSE, wk |-> worker, ds |-> destroySt]]
          /\ UNCHANGED <<m2w, sent, nextId, all, pc, cur>>
     ELSE /\ nextId <= MaxCalls
          /\ m2w' = PostTo(worker, m2w, Msg("run", Mode(q.kind), q.sql, nextId, q.kind))
          /\ sent' = [sent EXCEPT !["run"] = @ + 1]
          /\ nextId' = nextId + 1
          /\ IF Registers(connMitt)
             THEN /\ all' = Once(all, "run", nextId)
                  /\ pc' = [pc EXCEPT ![c] = "query"]
                  /\ cur' = [cur EXCEPT ![c] = [op |-> op, id |-> nextId, wk |-> worker,
                                             ds |-> destroySt]]
                  /\ res' = [res EXCEPT ![c] = NoRes]
             ELSE /\ res' = [res EXCEPT ![c] =
                               [op |-> op, id |-> nextId, rid |-> 0, out |-> "rejected",
                                err |-> FALSE, wk |-> worker, ds |-> destroySt]]
                  /\ UNCHANGED <<all, pc, cur>>
  /\ UNCHANGED <<syncVars, peer, worker, mitt, connection, connMitt, onCreate, initSt, destroySt,
                 w2m, db, mutexVars, conn, got>>

executeQuery(c) == \E k \in Kinds : Execute(c, "query", [kind |-> k, sql |-> "stmt"])

beginTransaction(c) == Execute(c, "begin", CompiledQueryRaw("begin"))

commitTransaction(c) == Execute(c, "commit", CompiledQueryRaw("commit"))

rollbackTransaction(c) == Execute(c, "rollback", CompiledQueryRaw("rollback"))

(* ------------------------------------------------- a peer without driver *)

\* messages a main thread may post to the worker, in any order
MaxDirect == 3

directPost ==
  /\ peer = "direct"
  /\ nextId <= MaxDirect
  /\ \E t \in Types : \E md \in Modes :
       /\ t # "run" => md = "query"
       /\ m2w' = Append(m2w, Msg(t, IF t = "run" THEN md ELSE "-", "stmt", nextId, "-"))
       /\ sent' = [sent EXCEPT ![t] = @ + 1]
  /\ nextId' = nextId + 1
  /\ UNCHANGED <<syncVars, peer, driverVars, w2m, db, mutexVars, clientVars, got>>

directRecv ==
  /\ peer = "direct"
  /\ w2m # <<>>
  /\ w2m' = Tail(w2m)
  /\ UNCHANGED <<syncVars, peer, driverVars, m2w, db, mutexVars, clientVars, nextId, sent, got>>

(* ------------------------------------------------------ the schema sync *)

\* tables of one declared schema
MaxTables == 2

\* runs of the sync in one behaviour
MaxRuns == 2

\* statements the database or the transport fails although they are well formed
MaxFaults == 1

\* JavaScript's `undefined` and `true` where a column name may stand as well
U == "<undefined>"

T == "<true>"

\* define.ts: the defaultTo of a column maintained by a time trigger
TGR == "__TIME_TRIGGER__"

\* a time-trigger configuration as written by the author: absent, `true`, or an
\* object { create, update } (types.ts `timestamp`, defineTable's `timeTrigger`)
NoCfg == [is |-> "undefined", create |-> U, update |-> U]

True == [is |-> "true", create |-> U, update |-> U]

Obj(create, update) == [is |-> "object", create |-> create, update |-> update]

Truthy(v) == v.is # "undefined"

\* authored column lists (name -> option, in insertion order)
Col(name, type, notNull, defaultTo) ==
  [name |-> name, type |-> type, notNull |-> notNull, defaultTo |-> defaultTo]

ColumnLists ==
  { << Col("id", "increments", TRUE, "x"), Col("name", "string", FALSE, U),
       Col("blobtest", "blob", FALSE, U) >>,
    << Col("name", "string", TRUE, "x"), Col("createAt", "string", FALSE, U) >>,
    << Col("updateAt", "increments", FALSE, U), Col("name", "string", FALSE, U) >> }

\* authored table properties; a key or an index is the list of its columns
\* (a single name stands for the list of that name), <<>> is an absent property
Primaries == { <<>>, <<"name">> }

Uniques == { <<>>, << <<"name">> >> }

Indexes == { <<>>, << <<"name", "blobtest">>, <<"name">> >> }

\* the configurations an author writes: in the table literal of types.ts
\* (`timestamp`), or as defineTable's `timeTrigger`
TimeCfgs(via) ==
  IF via = "literal" THEN {NoCfg, True, Obj("born", U)}
  ELSE {NoCfg, Obj(T, T), Obj("born", U)}

\* what the author of one table writes, as a table literal or as the arguments
\* of defineTable
AuthorsVia(v) ==
  { [via |-> v, columns |-> cl, primary |-> p, unique |-> u, index |-> ix, time |-> tc] :
      cl \in ColumnLists, p \in Primaries, u \in Uniques, ix \in Indexes,
      tc \in TimeCfgs(v) }

Authors == AuthorsVia("literal") \cup AuthorsVia("defineTable")

\* the further tables of a schema: the playground's table, as a table literal
Further ==
  [via |-> "literal",
   columns |-> << Col("id", "increments", FALSE, U), Col("name", "string", FALSE, U),
                  Col("blobtest", "blob", FALSE, U) >>,
   primary |-> <<>>, unique |-> <<>>,
   index |-> << <<"name", "blobtest">>, <<"name">> >>, time |-> True]

FirstName == "test"

FurtherNames == {"user", "7"}

\* property names that are array indexes, with their numeric value
ArrayIndex == [n \in {"7"} |-> 7]

\* the schemas: object literals { name: table, ... } in the order written
FurtherSeqs ==
  UNION { { f \in [1..n -> FurtherNames] : \A i, j \in 1..n : i # j => f[i] # f[j] }
            : n \in 0..(MaxTables - 1) }

Schemas ==
  { <<[name |-> FirstName, by |-> a]>> \o [i \in 1..Len(f) |-> [name |-> f[i], by |-> Further]] :
      a \in Authors, f \in FurtherSeqs }

\* define.ts defineTable: `columns[name] = option` on the caller's column map: an
\* existing key keeps its place and takes the new value, a new key goes last
Assign(columns, name, option) ==
  IF \E i \in 1..Len(columns) : columns[i].name = name
  THEN [i \in 1..Len(columns) |->
          IF columns[i].name = name THEN Col(name, option.type, option.notNull, option.defaultTo)
          ELSE columns[i]]
  ELSE Append(columns, Col(name, option.type, option.notNull, option.defaultTo))

\* defineTable(columns, property): the time-trigger columns are written into the
\* column map, and the properties are spread beside `columns`
defineTable(columns, property) ==
  LET tt      == property.timeTrigger
      create  == IF Truthy(tt) THEN tt.create ELSE U
      update  == IF Truthy(tt) THEN tt.update ELSE U
      options == [type |-> "date", notNull |-> FALSE, defaultTo |-> TGR]
      c1 == IF create = T THEN Assign(columns, "createAt", options)
            ELSE IF create # U THEN Assign(columns, create, options)
            ELSE columns
      c2 == IF update = T THEN Assign(c1, "updateAt", options)
            ELSE IF update # U THEN Assign(c1, update, options)
            ELSE c1
  IN  [columns |-> c2, primary |-> property.primary, unique |-> property.unique,
       index |-> property.index, timeTrigger |-> tt]

\* the table object the sync is given for one authored table
TableOf(a) ==
  IF a.via = "defineTable"
  THEN defineTable(a.columns, [primary |-> a.primary, unique |-> a.unique,
                               index |-> a.index, timeTrigger |-> a.time])
  ELSE [columns |-> a.columns,
        property |-> [primary |-> a.primary, unique |-> a.unique, index |-> a.index,
                      timestamp |-> a.time]]

\* util.ts parseTableMap: `for (const tableName in tables)` visits the keys that
\* are array indexes first, in ascending numeric order, then the other keys in
\* the order they were written; the Map keeps the order of the visits
ForIn(names) ==
  LET idx  == SelectSeq(names, LAMBDA n : n \in DOMAIN ArrayIndex)
      rest == SelectSeq(names, LAMBDA n : n \notin DOMAIN ArrayIndex)
      Rank(n) == Cardinality({m \in DOMAIN ArrayIndex :
                                 /\ \E i \in 1..Len(idx) : idx[i] = m
                                 /\ ArrayIndex[m] <= ArrayIndex[n]})
  IN  [r \in 1..Len(idx) |-> CHOOSE n \in DOMAIN ArrayIndex :
                                /\ \E i \in 1..Len(idx) : idx[i] = n
                                /\ Rank(n) = r] \o rest

parseTableMap(schema) ==
  LET order == ForIn([i \in 1..Len(schema) |-> schema[i].name])
      Entry(n) == CHOOSE e \in {schema[i] : i \in 1..Len(schema)} : e.name = n
  IN  [i \in 1..Len(order) |-> [name |-> order[i], table |-> TableOf(Entry(order[i]).by)]]

\* runCreateTable: `const { columns, property } = table` and `property || {}`
NoProperty == [primary |-> <<>>, unique |-> <<>>, index |-> <<>>, timestamp |-> NoCfg]

Property(table) == IF "property" \in DOMAIN table THEN table.property ELSE NoProperty

\* runCreateTable: _insertColumnName and _updateColumnName
InsertColumnName(timestamp) ==
  IF timestamp.is = "object" /\ timestamp.create # U THEN timestamp.create ELSE "createAt"

UpdateColumnName(timestamp) ==
  IF timestamp.is = "object" /\ timestamp.update # U THEN timestamp.update ELSE "updateAt"

\* runCreateTable: the switch on the column type
DataType(type) ==
  IF type \in {"increments", "number"} THEN "integer"
  ELSE IF type = "blob" THEN "blob" ELSE "text"

\* runCreateTable: the columns the loop passes over (`continue`)
Skipped(columnName, timestamp) ==
  columnName \in {InsertColumnName(timestamp), UpdateColumnName(timestamp)}

\* runCreateTable: the column definition built in addColumn's callback
AddColumn(c) ==
  IF c.type = "increments"
  THEN [name |-> c.name, dataType |-> DataType(c.type), autoIncrement |-> TRUE,
        primaryKey |-> TRUE, notNull |-> FALSE, defaultTo |-> U]
  ELSE [name |-> c.name, dataType |-> DataType(c.type), autoIncrement |-> FALSE,
        primaryKey |-> FALSE, notNull |-> c.notNull, defaultTo |-> c.defaultTo]

TextColumn(name) ==
  [name |-> name, dataType |-> "text", autoIncrement |-> FALSE, primaryKey |-> FALSE,
   notNull |-> FALSE, defaultTo |-> U]

\* runCreateTable: _haveAutoKey after the loop over the columns
HaveAutoKey(table) ==
  \E i \in 1..Len(table.columns) :
    /\ table.columns[i].type = "increments"
    /\ ~Skipped(table.columns[i].name, Property(table).timestamp)

\* runCreateTable: a primary-key constraint is added
AddsPrimaryKey(table) == ~HaveAutoKey(table) /\ Property(table).primary # <<>>

\* runCreateTable: _triggerKey when the triggers are created
TriggerKey(table) ==
  LET p    == Property(table)
      incs == {i \in 1..Len(table.columns) : table.columns[i].type = "increments"}
      k1   == IF incs = {} THEN "rowid"
              ELSE table.columns[CHOOSE i \in incs : \A j \in incs : j <= i].name
      k2   == IF AddsPrimaryKey(table) THEN Head(p.primary) ELSE k1
  IN  IF p.unique # <<>> /\ p.primary = <<>> /\ ~HaveAutoKey(table)
      THEN Head(p.unique[Len(p.unique)])
      ELSE k2

\* runCreateTable: the CREATE TABLE IF NOT EXISTS statement of one table
CreateTableStmt(tableName, table) ==
  LET p    == Property(table)
      kept == SelectSeq(table.columns, LAMBDA c : ~Skipped(c.name, p.timestamp))
  IN  [kind |-> "createTable", table |-> tableName,
       columns |-> [i \in 1..Len(kept) |-> AddColumn(kept[i])]
                   \o (IF Truthy(p.timestamp)
                       THEN << TextColumn(InsertColumnName(p.timestamp)),
                               TextColumn(UpdateColumnName(p.timestamp)) >>
                       ELSE <<>>),
       primaryKey |-> IF AddsPrimaryKey(table) THEN p.primary ELSE <<>>,
       unique |-> p.unique]

\* runCreateTable: DROP TABLE IF EXISTS
DropTableStmt(tableName) == [kind |-> "dropTable", table |-> tableName]

\* runCreateTable: CREATE INDEX IF NOT EXISTS idx_<columns> ON <table> (<columns>)
CreateIndexStmt(tableName, i) ==
  [kind |-> "createIndex", name |-> <<"idx">> \o i, table |-> tableName, columns |-> i]

\* createTimeTrigger: CREATE TRIGGER IF NOT EXISTS <table>_<column> AFTER <event>
CreateTriggerStmt(tableName, event, column, key) ==
  [kind |-> "createTrigger", name |-> <<tableName, column>>, table |-> tableName,
   event |-> event, column |-> column, key |-> key]

\* runCreateTable: the statements of one pass of the loop, in the order awaited
TableStatements(tableName, table, drop) ==
  LET p == Property(table)
  IN  (IF drop THEN <<DropTableStmt(tableName)>> ELSE <<>>)
      \o <<CreateTableStmt(tableName, table)>>
      \o [i \in 1..Len(p.index) |-> CreateIndexStmt(tableName, p.index[i])]
      \o (IF Truthy(p.timestamp)
          THEN << CreateTriggerStmt(tableName, "insert", InsertColumnName(p.timestamp),
                                    TriggerKey(table)),
                  CreateTriggerStmt(tableName, "update", UpdateColumnName(p.timestamp),
                                    TriggerKey(table)) >>
          ELSE <<>>)

(* the database catalog, as SQLite keeps it *)

NoEntries == [n \in {} |-> U]

EmptyCatalog == [tables |-> NoEntries, indexes |-> NoEntries, triggers |-> NoEntries]

With(f, n, v) == [m \in DOMAIN f \cup {n} |-> IF m = n THEN v ELSE f[m]]

Without(f, ns) == [m \in DOMAIN f \ ns |-> f[m]]

ColumnNames(columns) == {columns[i].name : i \in 1..Len(columns)}

\* a table of the database that no schema declares
LegacyName == "legacy"

OldTable == [columns |-> <<TextColumn("name")>>, primaryKey |-> <<>>, unique |-> <<>>,
             rows |-> 1]

\* a database left by an earlier version of the application: the first table
\* with one column and one row, and a table the schema does not name, with an
\* index of its own
OldCatalog ==
  [EmptyCatalog EXCEPT
     !.tables = With(With(NoEntries, FirstName, OldTable), LegacyName, OldTable),
     !.indexes = With(NoEntries, <<"idx", LegacyName>>,
                      [table |-> LegacyName, columns |-> <<"name">>])]

Catalogs == {EmptyCatalog, OldCatalog}

\* statements without IF NOT EXISTS: creating what is there is an error
InvalidStrict(stmt, cat) ==
  IF stmt.kind = "dropTable" THEN FALSE
  ELSE IF stmt.kind = "createTable" THEN stmt.table \in DOMAIN cat.tables
  ELSE IF stmt.kind = "createIndex"
  THEN stmt.table \notin DOMAIN cat.tables \/ stmt.name \in DOMAIN cat.indexes
  ELSE stmt.table \notin DOMAIN cat.tables \/ stmt.name \in DOMAIN cat.triggers

\* the statement is rejected by the database as it stands: a CREATE TABLE without
\* columns, with a column named twice or a key over a column it does not define;
\* a CREATE INDEX or CREATE TRIGGER on a missing table; a new index over a column
\* its table does not have.  IF [NOT] EXISTS makes the statement a no-op, not an
\* error, when the object is already there (or already gone).
Invalid(stmt, cat) ==
  IF stmt.kind = "dropTable" THEN FALSE
  ELSE IF stmt.kind = "createTable"
  THEN /\ stmt.table \notin DOMAIN cat.tables
       /\ \/ stmt.columns = <<>>
          \/ \E i, j \in 1..Len(stmt.columns) :
               i # j /\ stmt.columns[i].name = stmt.columns[j].name
          \/ \E i \in 1..Len(stmt.primaryKey) :
               stmt.primaryKey[i] \notin ColumnNames(stmt.columns)
          \/ \E u \in 1..Len(stmt.unique) : \E i \in 1..Len(stmt.unique[u]) :
               stmt.unique[u][i] \notin ColumnNames(stmt.columns)
  ELSE IF stmt.kind = "createIndex"
  THEN \/ stmt.table \notin DOMAIN cat.tables
       \/ /\ stmt.name \notin DOMAIN cat.indexes
          /\ \E i \in 1..Len(stmt.columns) :
               stmt.columns[i] \notin ColumnNames(cat.tables[stmt.table].columns)
  ELSE stmt.table \notin DOMAIN cat.tables

\* the catalog after the statement has been executed
Applied(stmt, cat) ==
  IF stmt.kind = "dropTable"
  THEN [tables   |-> Without(cat.tables, {stmt.table}),
        indexes  |-> Without(cat.indexes,
                             {n \in DOMAIN cat.indexes : cat.indexes[n].table = stmt.table}),
        triggers |-> Without(cat.triggers,
                             {n \in DOMAIN cat.triggers : cat.triggers[n].table = stmt.table})]
  ELSE IF stmt.kind = "createTable"
  THEN IF stmt.table \in DOMAIN cat.tables THEN cat
       ELSE [cat EXCEPT !.tables =
               With(cat.tables, stmt.table,
                    [columns |-> stmt.columns, primaryKey |-> stmt.primaryKey,
                     unique |-> stmt.unique, rows |-> 0])]
  ELSE IF stmt.kind = "createIndex"
  THEN IF stmt.name \in DOMAIN cat.indexes THEN cat
       ELSE [cat EXCEPT !.indexes =
               With(cat.indexes, stmt.name, [table |-> stmt.table, columns |-> stmt.columns])]
  ELSE IF stmt.name \in DOMAIN cat.triggers THEN cat
       ELSE [cat EXCEPT !.triggers =
               With(cat.triggers, stmt.name,
                    [table |-> stmt.table, event |-> stmt.event, column |-> stmt.column,
                     key |-> stmt.key])]

(* one run of the sync *)

\* a promise of a failed statement as the sync awaits it: createTimeTrigger's
\* .catch(err => ...) turns the failure into `undefined`; dropTable's .catch()
\* has no handler and the other statements have no catch at all
RejectsAlways(kind, failed) == failed

Rejects(kind, failed) == failed /\ kind # "createTrigger"

\* createAutoSyncSchemaFn: the promise of the async function it returns, which
\* awaits the sync without a try
FnSettles(thrown) == IF thrown THEN "rejected" ELSE "resolved"

\* a syncSchema that reports success whatever happened
OutcomeReady(fn, error) == [ready |-> TRUE, error |-> 0, fn |-> fn]

\* syncSchema(fn): the Sync Outcome returned for the settled promise of fn; error
\* is the number of the statement that failed
Outcome(fn, error) ==
  IF fn = "rejected" THEN [ready |-> FALSE, error |-> error, fn |-> fn]
  ELSE [ready |-> TRUE, error |-> 0, fn |-> fn]

NoOutcome == [ready |-> FALSE, error |-> 0, fn |-> "pending"]

\* db.syncSchema(createAutoSyncSchemaFn(tables)): the sync function is called,
\* builds the table map and runs up to its first await
syncSchema ==
  /\ sync.st \in {"idle", "done"}
  /\ sync.run < MaxRuns
  /\ sync' = [st |-> "running", run |-> sync.run + 1, tableMap |-> parseTableMap(tables),
              t |-> 1, j |-> 1, from |-> catalog]
  /\ issued' = <<>>
  /\ outcome' = NoOutcome
  /\ UNCHANGED <<transportVars, tables, dropTableBeforeInit, catalog, runs, faults>>

\* the statement awaited settles, and the sync runs on to its next await, to the
\* end of the loop or to the throw
Settles(kind) ==
  /\ LET entry == sync.tableMap[sync.t]
         stmts == TableStatements(entry.name, entry.table, dropTableBeforeInit)
         stmt  == stmts[sync.j]
         k     == Len(issued) + 1
     IN  /\ stmt.kind = kind
         /\ \E fault \in BOOLEAN :
              LET failed == fault \/ Invalid(stmt, catalog)
                  thrown == Rejects(kind, failed)
                  over   == thrown \/ (sync.j = Len(stmts) /\ sync.t = Len(sync.tableMap))
                  log    == Append(issued, [k |-> k, stmt |-> stmt, ok |-> ~failed,
                                            fault |-> fault])
                  cat    == IF failed THEN catalog ELSE Applied(stmt, catalog)
                  out    == IF over THEN Outcome(FnSettles(thrown), k) ELSE NoOutcome
              IN  /\ fault => faults < MaxFaults
                  /\ faults' = IF fault THEN faults + 1 ELSE faults
                  /\ catalog' = cat
                  /\ issued' = log
                  /\ outcome' = out
                  /\ sync' = IF over THEN [sync EXCEPT !.st = "done"]
                             ELSE IF sync.j < Len(stmts) THEN [sync EXCEPT !.j = @ + 1]
                             ELSE [sync EXCEPT !.t = @ + 1, !.j = 1]
                  /\ runs' = IF over
                             THEN Append(runs, [outcome |-> out, from |-> sync.from,
                                                catalog |-> cat, issued |-> log])
                             ELSE runs
  /\ UNCHANGED <<transportVars, tables, dropTableBeforeInit>>

\* runCreateTable: await kysely.schema.dropTable(tableName).ifExists().execute().catch()
dropTable ==
  /\ sync.st = "running"
  /\ Settles("dropTable")

\* runCreateTable: await tableSql.ifNotExists().execute()
createTable ==
  /\ sync.st = "running"
  /\ Settles("createTable")

\* runCreateTable: await kysely.schema.createIndex(...)...ifNotExists().execute()
createIndex ==
  /\ sync.st = "running"
  /\ Settles("createIndex")

\* runCreateTable: await createTimeTrigger(kysely, tableName, event, column, _triggerKey)
createTimeTrigger ==
  /\ sync.st = "running"
  /\ Settles("createTrigger")

(* -------------------------------------------------------- specification *)

\* nothing constructed yet on the transport
Idle ==
  /\ worker = "none"
  /\ mitt = FALSE
  /\ all = EmptyAll
  /\ connection = FALSE
  /\ connMitt = FALSE
  /\ onCreate = FALSE
  /\ initSt = "idle"
  /\ destroySt = "idle"
  /\ m2w = <<>>
  /\ w2m = <<>>
  /\ db = "undef"
  /\ promise = FALSE
  /\ waiters = <<>>
  /\ micro = <<>>
  /\ draining = FALSE
  /\ pc = [c \in Clients |-> "idle"]
  /\ conn = [c \in Clients |-> "none"]
  /\ cur = [c \in Clients |-> NoCall]
  /\ res = [c \in Clients |-> NoRes]
  /\ nextId = 1
  /\ arrivals = <<>>
  /\ sent = [t \in Types |-> 0]
  /\ got = [t \in Handshakes |-> "none"]

\* no sync has been asked for
Unsynced ==
  /\ sync = [st |-> "idle", run |-> 0, tableMap |-> <<>>, t |-> 0, j |-> 0,
             from |-> EmptyCatalog]
  /\ outcome = NoOutcome
  /\ issued = <<>>
  /\ runs = <<>>
  /\ faults = 0

Init ==
  /\ peer \in {"driver", "direct"}
  /\ Idle
  /\ tables = <<>>
  /\ dropTableBeforeInit = FALSE
  /\ catalog = EmptyCatalog
  /\ Unsynced

Next ==
  \/ init
  \/ destroy
  \/ emit
  \/ onmessage
  \/ microtask
  \/ \E c \in Clients : acquireConnection(c)
  \/ \E c \in Clients : releaseConnection(c)
  \/ \E c \in Clients : executeQuery(c)
  \/ \E c \in Clients : beginTransaction(c)
  \/ \E c \in Clients : commitTransaction(c)
  \/ \E c \in Clients : rollbackTransaction(c)
  \/ directPost
  \/ directRecv

Spec == Init /\ [][Next]_vars

\* the event loop runs its tasks and microtasks, and the worker thread runs
FairSpec ==
  Spec /\ WF_vars(emit) /\ WF_vars(onmessage) /\ WF_vars(microtask)

\* the connection mutex alone, with callers that acquire and release for ever: the
\* microtasks of resumed callers are run, and a caller that holds the connection
\* releases it
MutexInit == Init /\ peer = "driver"

MutexNext ==
  \/ microtask
  \/ \E c \in Clients : acquireConnection(c)
  \/ \E c \in Clients : releaseConnection(c)

MutexFairSpec ==
  /\ MutexInit
  /\ [][MutexNext]_vars
  /\ WF_vars(microtask)
  /\ \A c \in Clients : SF_vars(releaseConnection(c))

\* the sync of a declared schema against a database, the statements reaching
\* the database one at a time
SyncInit ==
  /\ peer = "sync"
  /\ Idle
  /\ tables \in Schemas
  /\ dropTableBeforeInit \in BOOLEAN
  /\ catalog \in Catalogs
  /\ Unsynced

SyncNext ==
  \/ syncSchema
  \/ dropTable
  \/ createTable
  \/ createIndex
  \/ createTimeTrigger

SyncSpec == SyncInit /\ [][SyncNext]_vars

(* ------------------------------------------------------------ properties *)

InFlight == m2w \o w2m

Pending == {c \in Clients : pc[c] = "query"}

TxOps == {"begin", "commit", "rollback"}

\* C1: at most one caller has the connection at any time (its lock() has
\* completed and it has not released), the mutex being taken while one has it; a
\* caller that called acquireConnection while the connection was held is still
\* suspended as long as the holder has not released.
C1_MutualExclusion ==
  /\ Cardinality(Holders) <= 1
  /\ Holders # {} => promise
  /\ \A c \in Clients : pc[c] = "waiting" =>
       \/ c \in SeqToSet(waiters) /\ promise
       \/ \E i \in 1..Len(micro) : micro[i] = [k |-> "resume", c |-> c]

\* C1 witness: a caller holds the connection while another, woken by an earlier
\* release, waits again behind it
C1_Witness ==
  \E c, d \in Clients :
    /\ pc[c] = "holding"
    /\ pc[d] = "waiting"
    /\ d \in SeqToSet(waiters)
    /\ arrivals # <<>>
    /\ Head(arrivals) = d

\* C2 (as claimed): the caller that has the connection is the one whose
\* acquireConnection call is the oldest not yet released: no later caller is
\* granted the connection while an earlier one still waits.
C2_Fifo ==
  \A c \in Holders : arrivals # <<>> /\ Head(arrivals) = c

\* C3: init posts exactly one 'init' request; it settles only after an 'init'
\* response was dispatched; resolved means the response had no error and the
\* connection exists and onCreateConnection was invoked; rejected means the
\* response had an error and no connection exists; connection and callback never
\* precede an error-free response.
C3_InitHandshake ==
  peer = "driver" =>
    /\ sent["init"] = (IF initSt = "idle" THEN 0 ELSE 1)
    /\ initSt \in {"resolved", "rejected"} => got["init"] # "none"
    /\ initSt = "resolved" => got["init"] = "ok" /\ connection /\ onCreate
    /\ initSt = "rejected" => got["init"] = "err" /\ ~connection /\ ~onCreate
    /\ (connection \/ onCreate) => got["init"] = "ok" /\ initSt = "resolved"

\* C3 witness: init has resolved after an error-free response
C3_Witness ==
  /\ initSt = "resolved"
  /\ got["init"] = "ok"
  /\ connection
  /\ sent["init"] = 1

\* C4 (states): one 'close' request at most; destroy is pending only between
\* the request and its response; without a worker destroy sends nothing and is
\* resolved at once; resolved after a request means an error-free response, a
\* terminated worker and no emitter; rejected means an error response, a live
\* worker and the emitter kept; a call issued on a terminated worker is never
\* settled by a response; a call issued after destroy was rejected keeps its
\* handler while its request or the response to it is on the way to a live worker
\* or back, so that the response reaches it.
C4_States ==
  peer = "driver" =>
    /\ sent["close"] <= 1
    /\ destroySt = "pending" => sent["close"] = 1 /\ got["close"] = "none"
    /\ sent["close"] = 0 =>
         destroySt \in {"idle", "resolved"} /\ got["close"] = "none" /\ worker # "terminated"
    /\ (destroySt = "resolved" /\ sent["close"] = 1) =>
         got["close"] = "ok" /\ worker = "terminated" /\ ~mitt
    /\ destroySt = "rejected" =>
         got["close"] = "err" /\ worker = "live" /\ mitt /\ sent["close"] = 1
    /\ worker = "terminated" => destroySt = "resolved" /\ got["close"] = "ok"
    /\ \A c \in Clients :
         /\ res[c].wk = "terminated" => res[c].rid = 0 /\ res[c].out # "resolved"
         /\ cur[c].wk = "terminated" => pc[c] = "query"
         /\ (pc[c] = "query" /\ cur[c].ds = "rejected") =>
              /\ worker = "live" /\ mitt
              /\ cur[c].id \in SeqToSet(all["run"])
              /\ \E i \in 1..Len(InFlight) :
                   InFlight[i].type = "run" /\ InFlight[i].id = cur[c].id

\* C4 (steps): the step that resolves a pending destroy terminates the worker and
\* leaves no handler; the step that rejects it keeps the worker and the handlers
\* of the other events; a terminated worker takes and handles no message.
C4_Steps ==
  /\ (destroySt = "pending" /\ destroySt' = "resolved") =>
       worker' = "terminated" /\ all' = EmptyAll /\ ~mitt'
  /\ (destroySt = "pending" /\ destroySt' = "rejected") =>
       /\ worker' = worker
       /\ mitt' = mitt
       /\ all'["run"] = all["run"]
       /\ all'["init"] = all["init"]
  /\ worker = "terminated" =>
       worker' = "terminated" /\ m2w' = m2w /\ db' = db /\ Len(w2m') <= Len(w2m)

\* C4: destroy on a driver with a worker posts one 'close' request and settles
\* only after the 'close' response; an error-free response terminates the
\* worker, removes every handler and no later request is handled; an error
\* response rejects destroy, keeps worker and handlers, and a later run request
\* still reaches its response; without a worker destroy sends nothing and is
\* resolved at once.
C4_CloseHandshake == []C4_States /\ [][C4_Steps]_vars

\* C4 witness: destroy was rejected, and a query issued after the rejection has
\* been settled by its own response
C4_Witness ==
  /\ destroySt = "rejected"
  /\ \E c \in Clients : res[c].ds = "rejected" /\ res[c].rid = res[c].id /\ res[c].id > 0

\* C5 (as claimed): a query that is awaiting its response on a transport that
\* has been destroyed is eventually settled (rejected); it does not stay pending.
C5_NoHangingQuery ==
  \A c \in Clients : (pc[c] = "query" /\ worker = "terminated") ~> (pc[c] # "query")

\* C6 (states): a 'run' response for a request handled while `db` was undefined
\* carries an error and no data; a caller handed no connection (it acquired
\* before init completed) never has a request pending or posted: its query
\* fails at the call; a caller is handed the connection only once init created it.
C6_States ==
  /\ \A i \in 1..Len(w2m) :
       (w2m[i].type = "run" /\ w2m[i].dbAt = "undef") => w2m[i].err /\ w2m[i].data.null
  /\ \A c \in Clients :
       /\ conn[c] = "none" =>
            pc[c] # "query" /\ res[c].out \in {"none", "typeerror"} /\ res[c].id = 0
       /\ res[c].out = "typeerror" => conn[c] = "none" /\ pc[c] = "holding"
       /\ conn[c] = "conn" => connection /\ initSt = "resolved"
       /\ (pc[c] = "holding" /\ ~connection) => conn[c] = "none"

\* C6 (steps): the worker, handling a 'run' request while `db` is undefined,
\* posts one 'run' response with an error
C6_Steps ==
  (m2w # <<>> /\ m2w' = Tail(m2w) /\ Head(m2w).type = "run" /\ db = "undef") =>
     /\ Len(w2m') = Len(w2m) + 1
     /\ w2m'[Len(w2m')].type = "run"
     /\ w2m'[Len(w2m')].id = Head(m2w).id
     /\ w2m'[Len(w2m')].err

\* C6: a run request before init is not silently dropped: the worker answers
\* a 'run' received without database with a 'run' response carrying an error,
\* and a caller that acquired before init completed has its query fail at the
\* call, with nothing posted and nothing left pending.
C6_RunBeforeInit == []C6_States /\ [][C6_Steps]_vars

\* C6 witness: the worker has answered a 'run' request it received before any 'init'
C6_Witness ==
  /\ sent["init"] = 0
  /\ \E i \in 1..Len(w2m) : w2m[i].type = "run" /\ w2m[i].dbAt = "undef" /\ w2m[i].err

\* C7 (steps): handling a message posts exactly one response, of the request's
\* type, behind those already posted; a response with err has no data and the
\* database is as before; a response without err comes with the operation's
\* effect; without a database only 'init' can succeed.
C7_Steps ==
  (m2w # <<>> /\ m2w' = Tail(m2w)) =>
     /\ Len(w2m') = Len(w2m) + 1
     /\ SubSeq(w2m', 1, Len(w2m)) = w2m
     /\ LET q == Head(m2w)
            r == w2m'[Len(w2m')]
        IN  /\ r.type = q.type
            /\ r.id = q.id
            /\ r.err => r.data.null /\ db' = db
            /\ ~r.err => db' = (CASE q.type = "init" -> "open"
                                  [] q.type = "close" -> "closed"
                                  [] OTHER -> db)
            /\ (~r.err /\ q.type = "run") => ~r.data.null /\ db = "open"
            /\ (db = "undef" /\ q.type # "init") => r.err

\* C7: for every message the worker handles, in any order and any database
\* state, it posts exactly one response of the request's type; the response has
\* err and no data when the operation threw, and no err when it succeeded.
C7_OneResponse ==
  /\ [](\A i \in 1..Len(w2m) : w2m[i].type \in Types /\ (w2m[i].err => w2m[i].data.null))
  /\ [][C7_Steps]_vars

\* C7 witness: three messages posted directly have all been answered, one with
\* an error (a 'close' without database) and one without
C7_Witness ==
  /\ peer = "direct"
  /\ m2w = <<>>
  /\ Len(w2m) = 3
  /\ \E i, j \in 1..Len(w2m) :
       w2m[i].err /\ w2m[i].type = "close" /\ w2m[i].dbAt = "undef" /\ ~w2m[j].err

Runs(q) == {i \in 1..Len(q) : q[i].type = "run"}

\* C8 (states): with callers that query only while holding the connection, one
\* call at a time, at most one call awaits a response and at most one 'run'
\* handler is registered; every 'run' message in flight belongs to the call that
\* is awaiting; a call settled by a response was settled by the response to its
\* own request; a settled call is older than the call that is awaiting.
C8_States ==
  peer = "driver" =>
    /\ Cardinality(Pending) <= 1
    /\ Len(all["run"]) <= 1
    /\ Cardinality(Runs(m2w)) + Cardinality(Runs(w2m)) <= 1
    /\ \A i \in Runs(m2w) : \E c \in Pending : cur[c].id = m2w[i].id
    /\ \A i \in Runs(w2m) : \E c \in Pending : cur[c].id = w2m[i].id
    /\ \A c \in Clients : res[c].rid # 0 => res[c].rid = res[c].id
    /\ \A c \in Clients : \A d \in Pending : res[c].id < cur[d].id

\* C8 (steps): a step settles at most one call, with the oldest response not
\* yet delivered, which it consumes
C8_Steps ==
  \A c \in Clients :
    (pc[c] = "query" /\ pc'[c] # "query") =>
       /\ w2m # <<>>
       /\ w2m' = Tail(w2m)
       /\ res'[c].rid = Head(w2m).id
       /\ res'[c].id = cur[c].id
       /\ \A d \in Clients \ {c} : pc'[d] = pc[d] /\ res'[d] = res[d]

\* C8: with callers that query only while holding the connection and one call
\* at a time, a call is settled only by the response to its own request, no
\* response settles two calls, and calls settle in the order of their requests.
C8_Pairing == []C8_States /\ [][C8_Steps]_vars

\* C8 witness: the second call has been settled by the response to the second
\* request, after the first was
C8_Witness ==
  \E c \in Clients : res[c].id = 2 /\ res[c].rid = 2 /\ res[c].out = "resolved"

\* C9: a 'run' request carries the mode of its query kind: 'query' for
\* SelectQueryNode, 'raw' for RawNode, 'exec' for any other kind; an error-free
\* response carries rows only (read with stmt.all) for 'query', rows read with
\* stmt.all and insertId/numAffectedRows for 'raw', and no rows read with
\* insertId/numAffectedRows for 'exec'.
C9_ModeClassification ==
  /\ peer = "driver" =>
       \A i \in Runs(m2w) :
         /\ m2w[i].mode \in Modes
         /\ m2w[i].kind = "SelectQueryNode" => m2w[i].mode = "query"
         /\ m2w[i].kind = "RawNode" => m2w[i].mode = "raw"
         /\ m2w[i].kind \notin {"SelectQueryNode", "RawNode"} => m2w[i].mode = "exec"
  /\ \A i \in Runs(w2m) :
       ~w2m[i].err =>
         /\ w2m[i].mode = "query" => ~w2m[i].data.meta /\ w2m[i].data.rows = "all"
         /\ w2m[i].mode = "raw" => w2m[i].data.meta /\ w2m[i].data.rows = "all"
         /\ w2m[i].mode = "exec" => w2m[i].data.meta /\ w2m[i].data.rows = "none"

\* C9 witness: the worker has answered, without error, a request the driver
\* sent in mode 'exec'
C9_Witness ==
  /\ peer = "driver"
  /\ \E i \in Runs(w2m) : w2m[i].mode = "exec" /\ ~w2m[i].err /\ w2m[i].data.meta

\* C10 (states): every call that reaches postMessage posts one 'run' request; a
\* request with the text begin, commit or rollback is a 'run' request in mode
\* 'raw'; the request of a transaction call carries the text of that call; a
\* transaction call that settled did so by the response to its own request,
\* rejected exactly when that response carried an error.
C10_States ==
  peer = "driver" =>
    /\ sent["run"] = nextId - 1
    /\ \A i \in 1..Len(m2w) :
         m2w[i].sql \in TxOps =>
           m2w[i].type = "run" /\ m2w[i].mode = "raw" /\ m2w[i].kind = "RawNode"
    /\ \A c \in Pending : \A i \in Runs(m2w) :
         (cur[c].op \in TxOps /\ m2w[i].id = cur[c].id) => m2w[i].sql = cur[c].op
    /\ \A c \in Clients :
         (res[c].op \in TxOps /\ res[c].out \in {"resolved", "rejected"}) =>
            /\ res[c].id > 0
            /\ res[c].rid = res[c].id
            /\ (res[c].out = "rejected") = res[c].err

\* C10 (steps): the step that issues a transaction call posts its one request
\* and changes nothing of the driver but the 'run' handler it registers
C10_Steps ==
  \A c \in Clients :
    (cur[c].op = "none" /\ cur'[c].op \in TxOps) =>
       /\ sent'["run"] = sent["run"] + 1
       /\ worker = "live" =>
            m2w' = Append(m2w, Msg("run", "raw", cur'[c].op, cur'[c].id, "RawNode"))
       /\ UNCHANGED <<worker, mitt, connection, connMitt, onCreate, initSt, destroySt,
                      promise, waiters, micro, db, w2m>>
       /\ all' = [all EXCEPT !["run"] = Append(@, cur'[c].id)]

\* C10: beginTransaction, commitTransaction and rollbackTransaction each post
\* one 'run' request (mode 'raw', text begin / commit / rollback), settle only by
\* the response to it, reject exactly when it carries an error, and change no
\* state of the driver.
C10_TransactionPassthrough == []C10_States /\ [][C10_Steps]_vars

\* C10 witness: a rollback call has been rejected by the error response to its
\* own request
C10_Witness ==
  \E c \in Clients :
    /\ res[c].op = "rollback"
    /\ res[c].out = "rejected"
    /\ res[c].err
    /\ res[c].rid = res[c].id

(* ---------------------------------------------- properties of the sync *)

\* a run of the sync has returned
Returned == sync.st = "done"

\* the declaration of the table of that name
Declared(n) == (CHOOSE e \in {tables[i] : i \in 1..Len(tables)} : e.name = n).by

DeclaredNames == {tables[i].name : i \in 1..Len(tables)}

\* the declared tables that were not in the database when the run was called
Fresh == {n \in DeclaredNames : n \notin DOMAIN sync.from.tables}

\* the run has returned {ready: true}
Ready == Returned /\ outcome.ready

FailedIn(log, kinds) == {i \in 1..Len(log) : ~log[i].ok /\ log[i].stmt.kind \in kinds}

AllKinds == {"dropTable", "createTable", "createIndex", "createTrigger"}

\* C11 (as claimed): a run returns {ready: true} only when every statement it
\* issued succeeded, a failed trigger statement included.
C11_EveryFailureReported ==
  \A r \in 1..Len(runs) : runs[r].outcome.ready => FailedIn(runs[r].issued, AllKinds) = {}

\* C11 (amended): syncSchema returns a Sync Outcome for every run, although the
\* promise of the sync function rejects on a failure.  The outcome is
\* {ready: false, error} exactly when a DROP TABLE, CREATE TABLE or CREATE INDEX
\* statement failed (by itself or by the transport), error being that failure, which
\* is the last statement issued; it is {ready: true} exactly when all those
\* statements succeeded, whatever happened to the trigger statements.
C11_Outcome ==
  /\ \A r \in 1..Len(runs) :
       LET log == runs[r].issued
           bad == FailedIn(log, AllKinds \ {"createTrigger"})
           out == runs[r].outcome
       IN  /\ out.fn \in {"resolved", "rejected"}
           /\ out.ready <=> bad = {}
           /\ out.ready <=> out.fn = "resolved"
           /\ ~out.ready => bad = {Len(log)} /\ out.error = log[Len(log)].k
  /\ Returned => runs # <<>> /\ outcome = runs[Len(runs)].outcome
  /\ ~Returned => outcome = NoOutcome

\* C11: a run whose DROP TABLE was failed has returned {ready: false, error}
C11_Witness ==
  /\ Returned
  /\ ~outcome.ready
  /\ outcome.fn = "rejected"
  /\ issued[outcome.error].stmt.kind = "dropTable"

\* the column that tracks creation (update) under the table's time-trigger
\* configuration, U when that tracking is not enabled
CreateColumn(a) ==
  IF a.time.is = "true" \/ (a.time.is = "object" /\ a.time.create = T) THEN "createAt"
  ELSE IF a.time.is = "object" THEN a.time.create ELSE U

UpdateColumn(a) ==
  IF a.time.is = "true" \/ (a.time.is = "object" /\ a.time.update = T) THEN "updateAt"
  ELSE IF a.time.is = "object" THEN a.time.update ELSE U

TimeColumns(a) == {CreateColumn(a), UpdateColumn(a)} \ {U}

\* C12: after a sync that returned {ready: true}, every declared table that was
\* not in the database exists, and its columns are the declared columns and the
\* enabled time-trigger columns, each once.
C12_DeclaredColumns ==
  Ready =>
    \A n \in Fresh :
      /\ n \in DOMAIN catalog.tables
      /\ LET cols == catalog.tables[n].columns
         IN  /\ ColumnNames(cols) = ColumnNames(Declared(n).columns) \cup TimeColumns(Declared(n))
             /\ Cardinality(ColumnNames(cols)) = Len(cols)

\* the tables of the schema are table literals {columns, property} (types.ts)
Literal(n) == Declared(n).via = "literal"

\* C13: after a sync that returned {ready: true} of a schema of table literals
\* none of which was in the database, every declared index exists, on its table
\* and over its declared columns.
C13_DeclaredIndexes ==
  (Ready /\ Fresh = DeclaredNames /\ \A n \in DeclaredNames : Literal(n)) =>
    \A n \in DeclaredNames : \A i \in 1..Len(Declared(n).index) :
      \E x \in DOMAIN catalog.indexes :
        /\ catalog.indexes[x].table = n
        /\ catalog.indexes[x].columns = Declared(n).index[i]

\* a column that never holds NULL: declared NOT NULL, or an INTEGER PRIMARY KEY
NeverNull(c) == c.notNull \/ (c.primaryKey /\ c.dataType = "integer")

Increments(a) == {i \in 1..Len(a.columns) : a.columns[i].type = "increments"}

\* C14: in a table created by the sync from a table literal, every declared
\* 'increments' column is the primary key, auto-increment, never null and without
\* default, and the table then has no primary-key constraint; a table without an
\* 'increments' column has a primary-key constraint exactly when `primary` is
\* declared, over the declared columns.
C14_AutoIncrementKey ==
  Ready =>
    \A n \in Fresh : Literal(n) =>
      LET a == Declared(n)
          t == catalog.tables[n]
      IN  /\ \A i \in Increments(a) : \E j \in 1..Len(t.columns) :
                /\ t.columns[j].name = a.columns[i].name
                /\ t.columns[j].primaryKey
                /\ t.columns[j].autoIncrement
                /\ NeverNull(t.columns[j])
                /\ t.columns[j].defaultTo = U
          /\ Increments(a) # {} => t.primaryKey = <<>>
          /\ Increments(a) = {} => t.primaryKey = a.primary

\* the column that identifies a row of the table: its primary key if it has one
RowKey(t) ==
  IF \E j \in 1..Len(t.columns) : t.columns[j].primaryKey
  THEN t.columns[CHOOSE j \in 1..Len(t.columns) : t.columns[j].primaryKey].name
  ELSE IF t.primaryKey # <<>> THEN Head(t.primaryKey)
  ELSE "rowid"

TriggersOn(n) == {x \in DOMAIN catalog.triggers : catalog.triggers[x].table = n}

\* C15: the time triggers of a table created by the sync from a table literal
\* find the row by the table's primary key, and by rowid when it has none.
C15_TriggerKey ==
  Ready =>
    \A n \in Fresh : Literal(n) =>
      \A x \in TriggersOn(n) : catalog.triggers[x].key = RowKey(catalog.tables[n])

\* the statements a run of the sync issues when none fails
RECURSIVE Statements(_, _)
Statements(tableMap, drop) ==
  IF tableMap = <<>> THEN <<>>
  ELSE TableStatements(Head(tableMap).name, Head(tableMap).table, drop)
       \o Statements(Tail(tableMap), drop)

\* C16: a trigger statement that fails does not end the run: the sync goes on to
\* its next statement, or, after its last statement, returns {ready: true}; a run
\* that returned {ready: true} has issued every statement of every table; and the
\* error of a run that returned {ready: false} is never a trigger statement.
C16_TriggerFailureNonFatal ==
  /\ \A i \in FailedIn(issued, {"createTrigger"}) :
       i = Len(issued) => (sync.st = "running" \/ Ready)
  /\ Ready => Len(issued) = Len(Statements(sync.tableMap, dropTableBeforeInit))
  /\ (Returned /\ ~outcome.ready) => issued[outcome.error].stmt.kind # "createTrigger"

\* C16: the insert trigger of the first table processed failed, the update trigger
\* and the statements of the next table were issued after it, and the run has
\* returned {ready: true}
C16_Witness ==
  /\ Ready
  /\ \E i \in FailedIn(issued, {"createTrigger"}) :
       /\ issued[i].stmt.event = "insert"
       /\ issued[i + 1].stmt.kind = "createTrigger"
       /\ issued[i + 1].stmt.table = issued[i].stmt.table
       /\ issued[i + 1].ok
       /\ \E j \in (i + 2)..Len(issued) :
            /\ issued[j].stmt.table # issued[i].stmt.table
            /\ issued[j].stmt.kind = "createTable"
            /\ issued[j].ok

InsertTriggers(n) == {x \in TriggersOn(n) : catalog.triggers[x].event = "insert"}

UpdateTriggers(n) == {x \in TriggersOn(n) : catalog.triggers[x].event = "update"}

Named(columns, name) == {j \in 1..Len(columns) : columns[j].name = name}

\* C17: in a table created by a run in which no statement failed, a tracking that
\* is enabled has one column of its name and one trigger of its event on that
\* column, a tracking that is not enabled has no trigger, the table has no column
\* besides the authored ones and those of the enabled trackings, and three authored
\* columns with both trackings under their default names make 5 columns and 2
\* triggers.
C17_TimeColumns ==
  (Ready /\ FailedIn(issued, AllKinds) = {}) =>
    \A n \in Fresh :
      LET a == Declared(n)
          t == catalog.tables[n]
      IN  /\ CreateColumn(a) # U =>
                /\ Cardinality(Named(t.columns, CreateColumn(a))) = 1
                /\ Cardinality(InsertTriggers(n)) = 1
                /\ \A x \in InsertTriggers(n) : catalog.triggers[x].column = CreateColumn(a)
          /\ CreateColumn(a) = U => InsertTriggers(n) = {}
          /\ UpdateColumn(a) # U =>
                /\ Cardinality(Named(t.columns, UpdateColumn(a))) = 1
                /\ Cardinality(UpdateTriggers(n)) = 1
                /\ \A x \in UpdateTriggers(n) : catalog.triggers[x].column = UpdateColumn(a)
          /\ UpdateColumn(a) = U => UpdateTriggers(n) = {}
          /\ ColumnNames(t.columns) \subseteq ColumnNames(a.columns) \cup TimeColumns(a)
          /\ ( /\ Len(a.columns) = 3
               /\ TimeColumns(a) = {"createAt", "updateAt"}
               /\ ColumnNames(a.columns) \cap TimeColumns(a) = {} )
               => Len(t.columns) = 5 /\ Cardinality(TriggersOn(n)) = 2

\* the place of a table in the schema as the author wrote it
Written(n) == CHOOSE i \in 1..Len(tables) : tables[i].name = n

\* the place of a statement in the statements of one table
Rank(stmt) ==
  IF stmt.kind = "dropTable" THEN 1
  ELSE IF stmt.kind = "createTable" THEN 2
  ELSE IF stmt.kind = "createIndex" THEN 3
  ELSE IF stmt.event = "insert" THEN 4 ELSE 5

\* the index statements of a table issued before statement j
IndexesBefore(j) ==
  {i \in 1..(j - 1) : /\ issued[i].stmt.kind = "createIndex"
                      /\ issued[i].stmt.table = issued[j].stmt.table}

\* the statements of one table come in the order DROP TABLE (with
\* dropTableBeforeInit, and only then), CREATE TABLE, the indexes as declared, the
\* insert trigger, the update trigger, and nothing follows a CREATE TABLE that failed
InTableOrder ==
  /\ \A i, j \in 1..Len(issued) :
       (i < j /\ issued[i].stmt.table = issued[j].stmt.table) =>
         /\ Rank(issued[i].stmt) <= Rank(issued[j].stmt)
         /\ Rank(issued[i].stmt) = Rank(issued[j].stmt) => issued[i].stmt.kind = "createIndex"
  /\ \A j \in 1..Len(issued) :
       LET b == issued[j].stmt
       IN  /\ b.kind = "createIndex" =>
                 b.columns = Declared(b.table).index[Cardinality(IndexesBefore(j)) + 1]
           /\ b.kind \in {"createIndex", "createTrigger"} =>
                 \E i \in 1..(j - 1) : /\ issued[i].stmt.kind = "createTable"
                                        /\ issued[i].stmt.table = b.table
                                        /\ issued[i].ok
           /\ b.kind = "createTable" =>
                 (dropTableBeforeInit <=>
                    (j > 1 /\ issued[j - 1].stmt = DropTableStmt(b.table)))
           /\ b.kind = "dropTable" => dropTableBeforeInit

\* C18: the statements of a run are issued table after table in the order the
\* author wrote the tables in the schema, and in the order above within a table.
C18_Ordering ==
  /\ \A i, j \in 1..Len(issued) :
       i < j => Written(issued[i].stmt.table) <= Written(issued[j].stmt.table)
  /\ InTableOrder

Faulted(log) == {i \in 1..Len(log) : log[i].fault}

\* two runs in succession without dropTableBeforeInit, the first of which returned
\* {ready: true}, and no statement of the second failed by the database or the
\* transport
Twice ==
  /\ Len(runs) >= 2
  /\ ~dropTableBeforeInit
  /\ runs[1].outcome.ready
  /\ Faulted(runs[2].issued) = {}

Unchanged == runs[2].catalog = runs[1].catalog /\ runs[2].outcome.ready

C20_NoStarvation ==
  \A c \in Clients : (pc[c] = "waiting") ~> (pc[c] = "holding")

\* the tables of the database that the schema does not name
Undeclared == DOMAIN sync.from.tables \ DeclaredNames

\* the table is as it was when the run was called
Kept(n) == n \in DOMAIN catalog.tables /\ catalog.tables[n] = sync.from.tables[n]

\* nothing that was in the database when the run was called has been removed or
\* changed: tables (columns and rows), indexes, triggers
OnlyAdded ==
  /\ \A n \in DOMAIN sync.from.tables : Kept(n)
  /\ \A x \in DOMAIN sync.from.indexes :
       x \in DOMAIN catalog.indexes /\ catalog.indexes[x] = sync.from.indexes[x]
  /\ \A x \in DOMAIN sync.from.triggers :
       x \in DOMAIN catalog.triggers /\ catalog.triggers[x] = sync.from.triggers[x]

\* the run dropped the table before it created it
DroppedFirst(n) ==
  \E i, j \in 1..Len(issued) :
    /\ i < j
    /\ issued[i].stmt.kind = "dropTable" /\ issued[i].stmt.table = n /\ issued[i].ok
    /\ issued[j].stmt.kind = "createTable" /\ issued[j].stmt.table = n /\ issued[j].ok

\* the table exists with the declared columns and the enabled time-trigger
\* columns, and holds no row
DeclaredShape(n) ==
  /\ n \in DOMAIN catalog.tables
  /\ catalog.tables[n].rows = 0
  /\ ColumnNames(catalog.tables[n].columns)
       = ColumnNames(Declared(n).columns) \cup TimeColumns(Declared(n))

\* C22: in a run with dropTableBeforeInit false, every table, index and trigger
\* that was in the database is unchanged (columns and rows included), whatever
\* the run adds; after a run with dropTableBeforeInit true that returned
\* {ready: true}, every declared table was dropped before it was created, has the
\* declared shape and holds no row; in both cases the tables the schema does not
\* name are unchanged.
C22_DropTableBeforeInit ==
  sync.st \in {"running", "done"} =>
    /\ ~dropTableBeforeInit => OnlyAdded
    /\ (dropTableBeforeInit /\ Ready) =>
         \A n \in DeclaredNames : DroppedFirst(n) /\ DeclaredShape(n)
    /\ \A n \in Undeclared : Kept(n)

(* -------------------------------------------- properties of the worker *)

\* C21: every error-free response to a 'run' request, in each of the modes
\* query, raw and exec, is posted after the statement has been executed exactly
\* once.
C21_ExactlyOnce ==
  \A i \in Runs(w2m) :
    ~w2m[i].err => w2m[i].execs = 1
====
